---- MODULE Spec2Model ----
(***************************************************************************)
(* A model of MDCRippleFoundation (packages/mdc-ripple/foundation.js): the *)
(* activation / deactivation state machine, the render-frame callbacks it  *)
(* schedules, the opacity fade timer, the bounded animations and the       *)
(* frame-coalesced layout request.                                         *)
(*                                                                         *)
(* The browser is modelled as a single event loop: an input event, a timer *)
(* or a whole render frame runs to completion before the next one starts.  *)
(* A render frame (BeginFrame, then one ...Frame step for each callback    *)
(* until the frame's list is empty) runs every callback that was requested *)
(* before it, in request order; no event is delivered in between.          *)
(***************************************************************************)
EXTENDS Integers, Sequences, FiniteSets, TLC

\* ------------------------------------------------------------- bounds
\* Most requestAnimationFrame callbacks pending at once.
MaxQueue == 3
\* Most deactivation effects (pending deactivation callbacks plus armed fade
\* timers plus running background animations) outstanding at once.
MaxStack == 2
\* The clock runs from 1 to MaxTime.
MaxTime == 2
\* Most focus and blur callbacks pending at once.
MaxFocus == 1
\* The clock of the geometry calculator's own specification runs from 1 to
\* MaxElapsed, past every threshold of the unbounded deactivation timing.
MaxElapsed == 130

\* ---------------------------------------------------------- constants
NoEvent == "null"
ActivationTypes == {"touchstart", "pointerdown", "mousedown", "keydown"}
DeactivationTypes == {"touchend", "pointerup", "mouseup", "keyup"}
EventTypes == ActivationTypes \cup DeactivationTypes \cup {"focus", "blur"}

\* cssClasses (constants.js), by the names foundation.js uses.
ROOT == "ROOT"
UNBOUNDED == "UNBOUNDED"
BG_ACTIVE == "BG_ACTIVE"
BG_BOUNDED_ACTIVE_FILL == "BG_BOUNDED_ACTIVE_FILL"
FG_BOUNDED_ACTIVE_FILL == "FG_BOUNDED_ACTIVE_FILL"
FG_UNBOUNDED_ACTIVATION == "FG_UNBOUNDED_ACTIVATION"
FG_UNBOUNDED_DEACTIVATION == "FG_UNBOUNDED_DEACTIVATION"

\* The style variables updateLayoutCssVars_ always sets, those it sets in
\* unbounded mode, and those the two deactivation animations set.
LayoutVars == {"VAR_SURFACE_WIDTH", "VAR_SURFACE_HEIGHT", "VAR_FG_SIZE",
               "VAR_FG_UNBOUNDED_TRANSFORM_DURATION", "VAR_FG_SCALE"}
UnboundedLayoutVars == {"VAR_LEFT", "VAR_TOP"}
UnboundedDeactivationVars == {"VAR_FG_APPROX_XF", "VAR_FG_UNBOUNDED_OPACITY_DURATION",
                              "VAR_FG_UNBOUNDED_TRANSFORM_DURATION"}
BoundedDeactivationVars == {"VAR_FG_TRANSLATE_START", "VAR_FG_TRANSLATE_END"}

\* What adapter_.computeBoundingRect() may return.
Rects == {[width |-> 100, height |-> 50]}

DEACTIVATION_ACTIVATION_PAIRS(t) ==
  CASE t = "mouseup" -> "mousedown"
    [] t = "pointerup" -> "pointerdown"
    [] t = "touchend" -> "touchstart"
    [] t = "keyup" -> "keydown"
    [] t = "blur" -> "focus"
    [] OTHER -> "undefined"

\* listenerInfos_ with listeners_: the listener an event type is registered for.
ListenerFor(t) ==
  CASE t \in ActivationTypes -> "activate"
    [] t \in DeactivationTypes -> "deactivate"
    [] t = "focus" -> "focus"
    [] OTHER -> "blur"

defaultActivationState_ ==
  [isActivated |-> FALSE,
   wasActivatedByPointer |-> FALSE,
   wasElementMadeActive |-> FALSE,
   activationStartTime |-> 0,
   activationEvent |-> NoEvent]

VARIABLES
  supported,        \* adapter_.browserSupportsCssVars(), fixed for the instance
  unbounded,        \* adapter_.isUnbounded(), fixed for the surface
  phase,            \* "constructed", "initialized" or "destroyed"
  handlers,         \* event types (and "resize") with a handler registered
  activationState_, \* the fields of the object this.activationState_ refers to
  rafQueue,         \* requestAnimationFrame callbacks awaiting the next frame
  frameQueue,       \* callbacks of the render frame in progress, not yet run
  layoutFrame_,     \* this.layoutFrame_
  frame_,           \* this.frame_
  initialSize_,     \* this.initialSize_
  maxRadius_,       \* this.maxRadius_
  fgScale_,         \* this.fgScale_
  xfDuration_,      \* this.xfDuration_
  classes,          \* style classes on the surface
  cssVars,          \* names of the style variables that hold a value
  unboundedOpacityFadeTimer_,  \* this.unboundedOpacityFadeTimer_: 0 or a handle
  timers,           \* the setTimeout timers still pending
  cancelBgBounded_, \* this.cancelBgBounded_: 0 (the no-op) or a cancel function
  bgAnimations,     \* animateWithClass registrations of the background fill
  cancelFgBounded_, \* this.cancelFgBounded_: 0 (the no-op) or a cancel function
  fgAnimations,     \* animateWithClass registrations of the foreground fill
  now,              \* what Date.now() returned last
  thrown,           \* an exception has escaped a handler
  last,             \* history: the operation that ran last
  failed,           \* history: objects whose confirmation step found no press
  layoutCalls,      \* history: calls of layout() since the last frame began (2: two or more)
  deactivationInfo  \* history: what getUnboundedDeactivationInfo_ returned last

program == <<supported, unbounded, phase, handlers, activationState_,
             rafQueue, frameQueue, layoutFrame_, frame_, initialSize_,
             maxRadius_, fgScale_, xfDuration_, classes, cssVars,
             unboundedOpacityFadeTimer_, timers, cancelBgBounded_, bgAnimations,
             cancelFgBounded_, fgAnimations, now, thrown>>
history == <<last, failed, layoutCalls, deactivationInfo>>
vars == <<program, history>>

\* ------------------------------------------------------------ helpers
\* A handle or an object identity not in use: the smallest positive integer
\* outside `used`. (Real handles only grow; reusing a dead one is invisible,
\* because the program compares handles and identities only for equality.)
Fresh(used) ==
  CHOOSE n \in 1..(Cardinality(used) + 1) :
    n \notin used /\ \A m \in 1..(n - 1) : m \in used

Range(q) == {q[i] : i \in DOMAIN q}

Remove(q, id) == SelectSeq(q, LAMBDA cb : cb.id # id)

Count(q, kind) == Cardinality({i \in DOMAIN q : q[i].kind = kind})

\* The callbacks of activate_ and deactivate_ hold an object that was
\* this.activationState_ when they were requested. The program can tell such
\* an object only from the current one, so a callback's `obj` is the age of the
\* object it holds: 0 for the object this.activationState_ refers to now, and
\* one more each time this.activationState_ is replaced.
CycleKinds == {"activate", "deactivate"}

Referenced(q) == {cb.obj : cb \in {c \in Range(q) : c.kind \in CycleKinds}}

\* this.activationState_ = this.defaultActivationState_(): the pending callbacks
\* once a new object has taken the place of the current one. (When no callback
\* holds the current object, nothing can tell the new one from it.)
Replaced(q) ==
  IF 0 \in Referenced(q)
  THEN [i \in DOMAIN q |->
          IF q[i].kind \in CycleKinds THEN [q[i] EXCEPT !.obj = @ + 1] ELSE q[i]]
  ELSE q

\* Mutant of requestAnimationFrame: the newest callback runs first.
requestAnimationFrameFirst(q, kind, e, obj, state) ==
  <<[id |-> 0, kind |-> kind, e |-> e, obj |-> obj, state |-> state]>> \o q

\* requestAnimationFrame(callback) where the caller drops the handle it returns:
\* the queue with the callback appended (handle 0: no one can name it).
requestAnimationFrame(q, kind, e, obj, state) ==
  Append(q, [id |-> 0, kind |-> kind, e |-> e, obj |-> obj, state |-> state])

\* requestAnimationFrame(callback) where the caller keeps the handle: the queue
\* with the callback appended under a new handle.
requestAnimationFrameHandle(q, kind) ==
  Append(q, [id |-> Fresh({cb.id : cb \in Range(q)}), kind |-> kind, e |-> NoEvent,
             obj |-> 0, state |-> defaultActivationState_])

\* cancelAnimationFrame(handle)
cancelAnimationFrame(q, handle) == Remove(q, handle)

\* Timers and animation registrations are known to the program only through
\* the one handle it keeps for each kind (unboundedOpacityFadeTimer_,
\* cancelBgBounded_, cancelFgBounded_), and a handle always names the one made
\* last. So a collection of them is: whether the one the kept handle names is
\* still pending (held), and how many older ones, which no handle names any
\* more, are still pending (others).
None == [held |-> FALSE, others |-> 0]

Size(r) == r.others + (IF r.held THEN 1 ELSE 0)

\* A new one is made and its handle overwrites the kept one.
Register(r) == [held |-> TRUE, others |-> Size(r)]

\* The one the kept handle names is cancelled (a no-op if it is gone already).
Release(r) == [r EXCEPT !.held = FALSE]

\* setTimeout(callback, opacityDuration)
setTimeout(r) == Register(r)

\* clearTimeout(this.unboundedOpacityFadeTimer_)
clearTimeout(r) == Release(r)

\* util.animateWithClass(adapter, cls, endEvent): the class is added and a
\* listener for the end event registered; the cancel function it returns
\* removes both, once.
animateWithClass(r) == Register(r)

\* The cancel function kept in `handle` is called: the initial no-op, or the
\* one animateWithClass returned last.
cancelAnimation(r, handle) == IF handle = 0 THEN r ELSE Release(r)

\* ------------------------------------------------------------ numbers
\* A JavaScript number is modelled as a ratio n/d in lowest terms with d > 0,
\* or with d = 0 for the values a division by zero gives: Infinity (n = 1),
\* -Infinity (n = -1) and NaN (n = 0). Rounding of floating point is left out.
Abs(k) == IF k < 0 THEN -k ELSE k

Max(a, b) == IF a >= b THEN a ELSE b

RECURSIVE GCD(_, _)
GCD(a, b) == IF b = 0 THEN a ELSE GCD(b, a % b)

Sign(k) == IF k > 0 THEN 1 ELSE IF k < 0 THEN -1 ELSE 0

Ratio(n, d) ==
  IF d = 0
  THEN [n |-> Sign(n), d |-> 0]
  ELSE LET g == GCD(Abs(n), Abs(d))
       IN [n |-> Sign(d) * (n \div g), d |-> Abs(d) \div g]

Whole(k) == [n |-> k, d |-> 1]

Zero == Whole(0)

IsNaN(a) == a.n = 0 /\ a.d = 0

Plus(a, b) == Ratio(a.n * b.d + b.n * a.d, a.d * b.d)

Minus(a, b) == Ratio(a.n * b.d - b.n * a.d, a.d * b.d)

Times(a, b) == Ratio(a.n * b.n, a.d * b.d)

Over(a, b) == Ratio(a.n * b.d, a.d * b.n)

\* a < b and a > b as JavaScript compare numbers: false when either is NaN.
Less(a, b) ==
  /\ ~IsNaN(a) /\ ~IsNaN(b)
  /\ IF a.d = 0 /\ b.d = 0 THEN a.n < b.n ELSE a.n * b.d < b.n * a.d

Greater(a, b) == Less(b, a)

\* Math.min and Math.max of two numbers: NaN when either is NaN.
MathMin(a, b) ==
  IF IsNaN(a) \/ IsNaN(b) THEN Ratio(0, 0) ELSE IF Less(b, a) THEN b ELSE a

MathMax(a, b) ==
  IF IsNaN(a) \/ IsNaN(b) THEN Ratio(0, 0) ELSE IF Less(a, b) THEN b ELSE a

\* Math.sqrt rounds down to a multiple of 1/SqrtScale.
SqrtScale == 100

\* The largest r in lo..hi with r * r <= x.
RECURSIVE SqrtSearch(_, _, _)
SqrtSearch(x, lo, hi) ==
  IF lo >= hi
  THEN lo
  ELSE LET mid == (lo + hi + 1) \div 2
       IN IF mid * mid <= x
          THEN SqrtSearch(x, mid, hi)
          ELSE SqrtSearch(x, lo, mid - 1)

Sqrt(a) ==
  IF IsNaN(a) \/ a.n < 0 THEN Ratio(0, 0)
  ELSE IF a.d = 0 THEN a
  ELSE LET x == (a.n * SqrtScale * SqrtScale) \div a.d
       IN Ratio(SqrtSearch(x, 0, IF x < 40000 THEN x ELSE 40000), SqrtScale)

\* MDCRippleFoundation.numbers (constants.js)
FG_TRANSFORM_DELAY_MS == 80
OPACITY_DURATION_DIVISOR == 3
ACTIVE_OPACITY_DURATION_MS == 110
MIN_OPACITY_DURATION_MS == 200
UNBOUNDED_TRANSFORM_DURATION_MS == 200
PADDING == 10
INITIAL_ORIGIN_SCALE == Ratio(6, 10)

\* ----------------------------------------------------- event handlers
\* Mutant of activate_: the isActivated guard is missing.
activate_Unguarded(e) ==
  /\ activationState_' =
       [activationState_ EXCEPT
          !.isActivated = TRUE,
          !.activationEvent = e,
          !.wasActivatedByPointer =
             (e = "mousedown" \/ e = "touchstart" \/ e = "pointerdown"),
          !.activationStartTime = now']
  /\ rafQueue' = requestAnimationFrame(rafQueue, "activate", e, 0,
                                       defaultActivationState_)

\* activate_(e), up to and including the requestAnimationFrame call. now' is
\* the time of the call, which Date.now() returns.
activate_(e) ==
  IF activationState_.isActivated
  THEN UNCHANGED <<activationState_, rafQueue>>
  ELSE /\ activationState_' =
            [activationState_ EXCEPT
               !.isActivated = TRUE,
               !.activationEvent = e,
               !.wasActivatedByPointer =
                  (e = "mousedown" \/ e = "touchstart" \/ e = "pointerdown"),
               !.activationStartTime = now']
       /\ rafQueue' = requestAnimationFrame(rafQueue, "activate", e, 0,
                                            defaultActivationState_)

\* Mutant of needsDeactivationUX: any known deactivation type needs the visuals.
needsDeactivationUXAnyEnd(e) == DEACTIVATION_ACTIVATION_PAIRS(e) # "undefined"

needsDeactivationUX(e) ==
  DEACTIVATION_ACTIVATION_PAIRS(e) = activationState_.activationEvent

\* Mutant of needsActualDeactivation: the pointer override is missing.
needsActualDeactivationPaired(e) ==
  DEACTIVATION_ACTIVATION_PAIRS(e) = activationState_.activationEvent

needsActualDeactivation(e) ==
  IF activationState_.wasActivatedByPointer
  THEN e = "mouseup"
  ELSE needsDeactivationUX(e)

\* Mutant of deactivate_: the state is cleared in place, not replaced.
deactivate_InPlace(e) ==
  IF ~activationState_.isActivated
  THEN UNCHANGED <<activationState_, rafQueue, thrown>>
  ELSE /\ thrown' = (thrown \/ activationState_.activationEvent = NoEvent)
       /\ rafQueue' =
            IF needsDeactivationUX(e)
            THEN requestAnimationFrame(rafQueue, "deactivate", e, 0, activationState_)
            ELSE rafQueue
       /\ activationState_' =
            IF needsActualDeactivation(e)
            THEN [activationState_ EXCEPT !.isActivated = FALSE]
            ELSE activationState_

\* Mutant of deactivate_: the isActivated guard is missing.
deactivate_Unguarded(e) ==
  LET q == IF needsDeactivationUX(e)
           THEN requestAnimationFrame(rafQueue, "deactivate", e, 0, activationState_)
           ELSE rafQueue
  IN /\ thrown' = (thrown \/ activationState_.activationEvent = NoEvent)
     /\ IF needsActualDeactivation(e)
        THEN /\ activationState_' = defaultActivationState_
             /\ rafQueue' = Replaced(q)
        ELSE /\ activationState_' = activationState_
             /\ rafQueue' = q

\* deactivate_(e)
deactivate_(e) ==
  IF ~activationState_.isActivated
  THEN UNCHANGED <<activationState_, rafQueue, thrown>>
  ELSE LET state == activationState_
           q == IF needsDeactivationUX(e)
                THEN requestAnimationFrame(rafQueue, "deactivate", e, 0, state)
                ELSE rafQueue
       IN \* activationState.activationEvent.type throws when the event is null
          /\ thrown' = (thrown \/ activationState_.activationEvent = NoEvent)
          /\ IF needsActualDeactivation(e)
             THEN /\ activationState_' = defaultActivationState_
                  /\ rafQueue' = Replaced(q)
             ELSE /\ activationState_' = activationState_
                  /\ rafQueue' = q

\* Mutant of blurListener: blur is handled as a deactivation event.
blurListenerDeactivates ==
  rafQueue' = requestAnimationFrame(rafQueue, "deactivate", "blur", 0,
                                    activationState_)

\* listeners_.focus and listeners_.blur
focusListener == rafQueue' = requestAnimationFrame(rafQueue, "focus", NoEvent, 0,
                                                   defaultActivationState_)

blurListener == rafQueue' = requestAnimationFrame(rafQueue, "blur", NoEvent, 0,
                                                  defaultActivationState_)

\* Mutant of init: the isSupported_ guard is missing.
initUnguarded ==
  /\ handlers' = EventTypes \cup {"resize"}
  /\ rafQueue' = requestAnimationFrame(rafQueue, "init", NoEvent, 0,
                                       defaultActivationState_)

\* init()
init ==
  IF ~supported
  THEN UNCHANGED <<handlers, rafQueue>>
  ELSE /\ handlers' = EventTypes \cup {"resize"}
       /\ rafQueue' = requestAnimationFrame(rafQueue, "init", NoEvent, 0,
                                            defaultActivationState_)

\* destroy()
destroy ==
  IF ~supported
  THEN UNCHANGED <<handlers, rafQueue>>
  ELSE /\ handlers' = {}
       /\ rafQueue' = requestAnimationFrame(rafQueue, "destroy", NoEvent, 0,
                                            defaultActivationState_)

\* Mutant of LayoutCancelled: the pending request is not cancelled.
LayoutKept == rafQueue

\* layout(): the pending request, if any, is cancelled and a new one made.
LayoutCancelled ==
  IF layoutFrame_ # 0 THEN cancelAnimationFrame(rafQueue, layoutFrame_) ELSE rafQueue

layout ==
  LET q == requestAnimationFrameHandle(LayoutCancelled, "layout")
  IN /\ rafQueue' = q
     /\ layoutFrame_' = q[Len(q)].id

\* -------------------------------------------------- animation steps
\* The times Date.now() may return: not before the time it returned last.
Clock == now..MaxTime

\* animateActivation_(), with animateUnboundedActivation_()
animateActivation_ ==
  /\ classes' =
       ((classes \ {BG_BOUNDED_ACTIVE_FILL, FG_UNBOUNDED_DEACTIVATION,
                    FG_BOUNDED_ACTIVE_FILL})
          \cup {BG_ACTIVE})
          \cup (IF unbounded THEN {FG_UNBOUNDED_ACTIVATION} ELSE {})
  /\ bgAnimations' = cancelAnimation(bgAnimations, cancelBgBounded_)
  /\ fgAnimations' = cancelAnimation(fgAnimations, cancelFgBounded_)
  /\ timers' = IF unboundedOpacityFadeTimer_ # 0 THEN clearTimeout(timers) ELSE timers
  /\ unboundedOpacityFadeTimer_' = 0
  /\ UNCHANGED <<cssVars, cancelBgBounded_, cancelFgBounded_>>

\* Mutant of animateUnboundedDeactivation_: the activation marker is kept.
animateUnboundedDeactivation_NoSwap(cls) ==
  /\ cssVars' = cssVars \cup UnboundedDeactivationVars
  /\ classes' = cls \cup {FG_UNBOUNDED_DEACTIVATION}
  /\ timers' = setTimeout(timers)
  /\ unboundedOpacityFadeTimer_' = 1
  /\ UNCHANGED <<bgAnimations, fgAnimations, cancelBgBounded_, cancelFgBounded_>>

\* animateUnboundedDeactivation_(info), called with `cls` on the surface
animateUnboundedDeactivation_(cls) ==
  /\ cssVars' = cssVars \cup UnboundedDeactivationVars
  /\ classes' = (cls \cup {FG_UNBOUNDED_DEACTIVATION}) \ {FG_UNBOUNDED_ACTIVATION}
  /\ timers' = setTimeout(timers)
  /\ unboundedOpacityFadeTimer_' = 1
  /\ UNCHANGED <<bgAnimations, fgAnimations, cancelBgBounded_, cancelFgBounded_>>

\* animateBoundedDeactivation_(e, isPointerEvent), called with `cls` on the surface
animateBoundedDeactivation_(cls) ==
  /\ cssVars' = cssVars \cup BoundedDeactivationVars
  /\ classes' = cls \cup {BG_BOUNDED_ACTIVE_FILL, FG_BOUNDED_ACTIVE_FILL}
  /\ bgAnimations' = animateWithClass(bgAnimations)
  /\ cancelBgBounded_' = 1
  /\ fgAnimations' = animateWithClass(fgAnimations)
  /\ cancelFgBounded_' = 1
  /\ UNCHANGED <<timers, unboundedOpacityFadeTimer_>>

\* Mutant of getUnboundedDeactivationInfo_: the opacity is not capped at 1.
getUnboundedDeactivationInfo_Uncapped(activationStartTime, dateNow) ==
  LET msElapsed == Whole(dateNow - activationStartTime)
      approxCurScale ==
        IF Greater(msElapsed, Whole(FG_TRANSFORM_DELAY_MS))
        THEN LET percentComplete ==
                   MathMin(Over(Minus(msElapsed, Whole(FG_TRANSFORM_DELAY_MS)),
                                xfDuration_),
                           Whole(1))
             IN Times(percentComplete, fgScale_)
        ELSE Zero
      approxOpacity == Over(msElapsed, Whole(ACTIVE_OPACITY_DURATION_MS))
      opacityDuration ==
        MathMax(Whole(MIN_OPACITY_DURATION_MS),
                Over(Times(Whole(1000), approxOpacity),
                     Whole(OPACITY_DURATION_DIVISOR)))
  IN [transformDuration |-> Whole(UNBOUNDED_TRANSFORM_DURATION_MS),
      opacityDuration |-> opacityDuration,
      approxCurScale |-> approxCurScale]

\* getUnboundedDeactivationInfo_(activationStartTime), where Date.now()
\* returns dateNow.
getUnboundedDeactivationInfo_(activationStartTime, dateNow) ==
  LET msElapsed == Whole(dateNow - activationStartTime)
      approxCurScale ==
        IF Greater(msElapsed, Whole(FG_TRANSFORM_DELAY_MS))
        THEN LET percentComplete ==
                   MathMin(Over(Minus(msElapsed, Whole(FG_TRANSFORM_DELAY_MS)),
                                xfDuration_),
                           Whole(1))
             IN Times(percentComplete, fgScale_)
        ELSE Zero
      transformDuration == Whole(UNBOUNDED_TRANSFORM_DURATION_MS)
      approxOpacity == MathMin(Over(msElapsed, Whole(ACTIVE_OPACITY_DURATION_MS)),
                               Whole(1))
      opacityDuration ==
        MathMax(Whole(MIN_OPACITY_DURATION_MS),
                Over(Times(Whole(1000), approxOpacity),
                     Whole(OPACITY_DURATION_DIVISOR)))
  IN [transformDuration |-> transformDuration,
      opacityDuration |-> opacityDuration,
      approxCurScale |-> approxCurScale]

\* Mutant of animateDeactivation_: the step reads this.activationState_ as it is
\* when the step runs, not the snapshot.
animateDeactivation_Live(state) ==
  IF activationState_.wasActivatedByPointer \/ activationState_.wasElementMadeActive
  THEN IF unbounded
       THEN /\ now' \in Clock
            /\ deactivationInfo' =
                 getUnboundedDeactivationInfo_(activationState_.activationStartTime,
                                               now')
            /\ animateUnboundedDeactivation_(classes \ {BG_ACTIVE})
       ELSE /\ now' = now
            /\ deactivationInfo' = deactivationInfo
            /\ animateBoundedDeactivation_(classes \ {BG_ACTIVE})
  ELSE UNCHANGED <<classes, cssVars, timers, unboundedOpacityFadeTimer_,
                   bgAnimations, fgAnimations, cancelBgBounded_, cancelFgBounded_,
                   now, deactivationInfo>>

\* animateDeactivation_(e, state); in unbounded mode
\* getUnboundedDeactivationInfo_(activationStartTime) reads the clock.
animateDeactivation_(state) ==
  IF state.wasActivatedByPointer \/ state.wasElementMadeActive
  THEN IF unbounded
       THEN /\ now' \in Clock
            /\ deactivationInfo' =
                 getUnboundedDeactivationInfo_(state.activationStartTime, now')
            /\ animateUnboundedDeactivation_(classes \ {BG_ACTIVE})
       ELSE /\ now' = now
            /\ deactivationInfo' = deactivationInfo
            /\ animateBoundedDeactivation_(classes \ {BG_ACTIVE})
  ELSE UNCHANGED <<classes, cssVars, timers, unboundedOpacityFadeTimer_,
                   bgAnimations, fgAnimations, cancelBgBounded_, cancelFgBounded_,
                   now, deactivationInfo>>

\* Mutant of activateCallback: the state is not reset when the element was not
\* made active.
activateCallbackNoReset(e, obj, pressed) ==
  LET made == IF e = "keydown" THEN pressed ELSE TRUE
  IN /\ activationState_' =
          IF obj = 0
          THEN [activationState_ EXCEPT !.wasElementMadeActive = made]
          ELSE activationState_
     /\ frameQueue' = Tail(frameQueue)
     /\ IF made
        THEN animateActivation_
        ELSE UNCHANGED <<classes, cssVars, timers, unboundedOpacityFadeTimer_,
                         bgAnimations, fgAnimations, cancelBgBounded_,
                         cancelFgBounded_>>

\* The callback activate_ requests, run as the first of the frame's callbacks:
\* `obj` is the object activate_ captured, `pressed` is what
\* adapter_.isSurfaceActive() returns.
activateCallback(e, obj, pressed) ==
  LET made == IF e = "keydown" THEN pressed ELSE TRUE
  IN IF made
     THEN /\ activationState_' =
               IF obj = 0
               THEN [activationState_ EXCEPT !.wasElementMadeActive = TRUE]
               ELSE activationState_
          /\ frameQueue' = Tail(frameQueue)
          /\ animateActivation_
     ELSE /\ activationState_' = defaultActivationState_
          /\ frameQueue' = Replaced(Tail(frameQueue))
          /\ UNCHANGED <<classes, cssVars, timers, unboundedOpacityFadeTimer_,
                         bgAnimations, fgAnimations, cancelBgBounded_,
                         cancelFgBounded_>>

\* layoutInternal_() with updateLayoutCssVars_(): `rect` is what
\* adapter_.computeBoundingRect() returns.
layoutInternal_(rect) ==
  /\ frame_' = rect
  /\ LET maxDim == MathMax(Whole(rect.height), Whole(rect.width))
         surfaceDiameter ==
           Sqrt(Plus(Times(Whole(rect.width), Whole(rect.width)),
                     Times(Whole(rect.height), Whole(rect.height))))
         initialSize == Times(maxDim, INITIAL_ORIGIN_SCALE)
         maxRadius == Plus(surfaceDiameter, Whole(PADDING))
     IN /\ initialSize_' = initialSize
        /\ maxRadius_' = maxRadius
        /\ fgScale_' = Over(maxRadius, initialSize)
        /\ xfDuration_' = Times(Whole(1000), Sqrt(Over(maxRadius, Whole(1024))))
  /\ cssVars' = cssVars \cup LayoutVars
                  \cup (IF unbounded THEN UnboundedLayoutVars ELSE {})

\* removeCssVars_()
removeCssVars_ == cssVars' = {}

\* ---------------------------------------------------------- the model
Init ==
  /\ supported \in BOOLEAN
  /\ unbounded \in BOOLEAN
  /\ phase = "constructed"
  /\ handlers = {}
  /\ activationState_ = defaultActivationState_
  /\ rafQueue = <<>>
  /\ frameQueue = <<>>
  /\ layoutFrame_ = 0
  /\ frame_ = [width |-> 0, height |-> 0]
  /\ initialSize_ = Zero
  /\ maxRadius_ = Zero
  /\ fgScale_ = Zero
  /\ xfDuration_ = Zero
  /\ classes = {}
  /\ cssVars = {}
  /\ unboundedOpacityFadeTimer_ = 0
  /\ timers = None
  /\ cancelBgBounded_ = 0
  /\ bgAnimations = None
  /\ cancelFgBounded_ = 0
  /\ fgAnimations = None
  /\ now = 1
  /\ thrown = FALSE
  /\ last = [op |-> "none", e |-> NoEvent, active |-> FALSE, made |-> FALSE]
  /\ failed = {}
  /\ layoutCalls = 0
  /\ deactivationInfo = [transformDuration |-> Zero, opacityDuration |-> Zero,
                         approxCurScale |-> Zero]

\* The history of the last operation: which one, on which event, whether
\* isActivated was true before it, and (for the confirmation step) what
\* wasElementMadeActive was set to.
Did(op, e, made) ==
  last' = [op |-> op, e |-> e, active |-> activationState_.isActivated, made |-> made]

\* Deactivation effects outstanding: callbacks pending, timers armed,
\* animations of one slot running.
StackSize ==
  Count(rafQueue, "deactivate") + Size(timers)
    + Max(Size(bgAnimations), Size(fgAnimations))

\* Between render frames: no frame is in progress.
Idle == frameQueue = <<>>

Surface == <<classes, cssVars, timers, unboundedOpacityFadeTimer_, bgAnimations,
             fgAnimations, cancelBgBounded_, cancelFgBounded_>>

\* The component's life cycle calls init() once, then destroy() once.
InitCall ==
  /\ Idle /\ phase = "constructed" /\ Len(rafQueue) < MaxQueue
  /\ phase' = "initialized"
  /\ init
  /\ Did("init", NoEvent, FALSE)
  /\ UNCHANGED <<supported, unbounded, activationState_, frameQueue,
                 layoutFrame_, frame_, initialSize_, maxRadius_, fgScale_,
                 xfDuration_, Surface, now, thrown, failed, layoutCalls,
                 deactivationInfo>>

DestroyCall ==
  /\ Idle /\ phase = "initialized" /\ Len(rafQueue) < MaxQueue
  /\ phase' = "destroyed"
  /\ destroy
  /\ Did("destroy", NoEvent, FALSE)
  /\ UNCHANGED <<supported, unbounded, activationState_, frameQueue,
                 layoutFrame_, frame_, initialSize_, maxRadius_, fgScale_,
                 xfDuration_, Surface, now, thrown, failed, layoutCalls,
                 deactivationInfo>>

\* triggerLayout(): a call of layout(), by the client or by the resize handler.
LayoutCall ==
  /\ Idle /\ Len(LayoutCancelled) < MaxQueue
  /\ layout
  /\ layoutCalls' = IF layoutCalls < 2 THEN layoutCalls + 1 ELSE layoutCalls
  /\ Did("layout", NoEvent, FALSE)
  /\ UNCHANGED <<supported, unbounded, phase, handlers, activationState_,
                 frameQueue, frame_, initialSize_, maxRadius_, fgScale_,
                 xfDuration_, Surface, now, thrown, failed, deactivationInfo>>

\* An activation event reaches listeners_.activate; activate_ reads the clock
\* unless it returns early.
ActivationEvent ==
  \E e \in ActivationTypes,
     t \in IF activationState_.isActivated THEN {now} ELSE Clock :
    /\ Idle /\ e \in handlers /\ ListenerFor(e) = "activate"
    /\ activationState_.isActivated \/ Len(rafQueue) < MaxQueue
    /\ now' = t
    /\ activate_(e)
    /\ Did("activate", e, FALSE)
    /\ UNCHANGED <<supported, unbounded, phase, handlers, frameQueue,
                   layoutFrame_, frame_, initialSize_, maxRadius_, fgScale_,
                   xfDuration_, Surface, thrown, failed, layoutCalls,
                   deactivationInfo>>

\* A deactivation event reaches listeners_.deactivate.
DeactivationEvent ==
  \E e \in DeactivationTypes :
    /\ Idle /\ e \in handlers /\ ListenerFor(e) = "deactivate"
    /\ (activationState_.isActivated /\ needsDeactivationUX(e))
         => (Len(rafQueue) < MaxQueue /\ StackSize < MaxStack)
    /\ deactivate_(e)
    /\ Did("deactivate", e, FALSE)
    /\ UNCHANGED <<supported, unbounded, phase, handlers, frameQueue,
                   layoutFrame_, frame_, initialSize_, maxRadius_, fgScale_,
                   xfDuration_, Surface, now, failed, layoutCalls,
                   deactivationInfo>>

FocusEvent ==
  /\ Idle /\ "focus" \in handlers /\ ListenerFor("focus") = "focus"
  /\ Len(rafQueue) < MaxQueue
  /\ Count(rafQueue, "focus") + Count(rafQueue, "blur") < MaxFocus
  /\ focusListener
  /\ Did("focus", "focus", FALSE)
  /\ UNCHANGED <<supported, unbounded, phase, handlers, activationState_,
                 frameQueue, layoutFrame_, frame_, initialSize_, maxRadius_,
                 fgScale_, xfDuration_, Surface, now, thrown, failed,
                 layoutCalls, deactivationInfo>>

BlurEvent ==
  /\ Idle /\ "blur" \in handlers /\ ListenerFor("blur") = "blur"
  /\ Len(rafQueue) < MaxQueue
  /\ Count(rafQueue, "focus") + Count(rafQueue, "blur") < MaxFocus
  /\ blurListener
  /\ Did("blur", "blur", FALSE)
  /\ UNCHANGED <<supported, unbounded, phase, handlers, activationState_,
                 frameQueue, layoutFrame_, frame_, initialSize_, maxRadius_,
                 fgScale_, xfDuration_, Surface, now, thrown, failed,
                 layoutCalls, deactivationInfo>>

\* A render frame begins: it will run the callbacks requested so far.
BeginFrame ==
  /\ Idle /\ rafQueue # <<>>
  /\ frameQueue' = rafQueue
  /\ rafQueue' = <<>>
  /\ layoutCalls' = 0
  /\ Did("frame", NoEvent, FALSE)
  /\ UNCHANGED <<supported, unbounded, phase, handlers, activationState_,
                 layoutFrame_, frame_, initialSize_, maxRadius_, fgScale_,
                 xfDuration_, Surface, now, thrown, failed, deactivationInfo>>

Cb == Head(frameQueue)

\* The frame's next callback is of this kind.
Runs(kind) == frameQueue # <<>> /\ Cb.kind = kind

Pop(kind) ==
  /\ Runs(kind)
  /\ frameQueue' = Tail(frameQueue)
  /\ failed' = failed \cap Referenced(Tail(frameQueue))

ActivateFrame ==
  \E pressed \in BOOLEAN :
    /\ Runs("activate")
    /\ activateCallback(Cb.e, Cb.obj, pressed)
    /\ failed' =
         LET f == IF Cb.e = "keydown" /\ ~pressed THEN failed \cup {Cb.obj} ELSE failed
         IN (IF frameQueue' # Tail(frameQueue) THEN {a + 1 : a \in f} ELSE f)
              \cap Referenced(frameQueue')
    /\ Did("activateFrame", Cb.e, Cb.e # "keydown" \/ pressed)
    /\ UNCHANGED <<supported, unbounded, phase, handlers, rafQueue,
                   layoutFrame_, frame_, initialSize_, maxRadius_, fgScale_,
                   xfDuration_, now, thrown, layoutCalls, deactivationInfo>>

DeactivateFrame ==
  /\ Pop("deactivate")
  /\ animateDeactivation_(Cb.state)
  /\ Did("deactivateFrame", Cb.e, FALSE)
  /\ UNCHANGED <<supported, unbounded, phase, handlers, activationState_,
                 rafQueue, layoutFrame_, frame_, initialSize_, maxRadius_,
                 fgScale_, xfDuration_, thrown, layoutCalls>>

FocusFrame ==
  /\ Pop("focus")
  /\ classes' = classes \cup {BG_ACTIVE}
  /\ Did("focusFrame", NoEvent, FALSE)
  /\ UNCHANGED <<supported, unbounded, phase, handlers, activationState_,
                 rafQueue, layoutFrame_, frame_, initialSize_, maxRadius_,
                 fgScale_, xfDuration_, cssVars, timers,
                 unboundedOpacityFadeTimer_, bgAnimations, fgAnimations,
                 cancelBgBounded_, cancelFgBounded_, now, thrown, layoutCalls,
                 deactivationInfo>>

BlurFrame ==
  /\ Pop("blur")
  /\ classes' = classes \ {BG_ACTIVE}
  /\ Did("blurFrame", NoEvent, FALSE)
  /\ UNCHANGED <<supported, unbounded, phase, handlers, activationState_,
                 rafQueue, layoutFrame_, frame_, initialSize_, maxRadius_,
                 fgScale_, xfDuration_, cssVars, timers,
                 unboundedOpacityFadeTimer_, bgAnimations, fgAnimations,
                 cancelBgBounded_, cancelFgBounded_, now, thrown, layoutCalls,
                 deactivationInfo>>

\* The callback init() requests.
InitFrame ==
  \E rect \in Rects :
    /\ Pop("init")
    /\ classes' = classes \cup {ROOT} \cup (IF unbounded THEN {UNBOUNDED} ELSE {})
    /\ layoutInternal_(rect)
    /\ Did("initFrame", NoEvent, FALSE)
    /\ UNCHANGED <<supported, unbounded, phase, handlers, activationState_,
                   rafQueue, layoutFrame_, timers, unboundedOpacityFadeTimer_,
                   bgAnimations, fgAnimations, cancelBgBounded_,
                   cancelFgBounded_, now, thrown, layoutCalls, deactivationInfo>>

\* The callback destroy() requests.
DestroyFrame ==
  /\ Pop("destroy")
  /\ classes' = classes \ {ROOT, UNBOUNDED}
  /\ removeCssVars_
  /\ Did("destroyFrame", NoEvent, FALSE)
  /\ UNCHANGED <<supported, unbounded, phase, handlers, activationState_,
                 rafQueue, layoutFrame_, frame_, initialSize_, maxRadius_,
                 fgScale_, xfDuration_, timers, unboundedOpacityFadeTimer_,
                 bgAnimations, fgAnimations, cancelBgBounded_, cancelFgBounded_,
                 now, thrown, layoutCalls, deactivationInfo>>

\* The callback layout() requests.
LayoutFrame ==
  \E rect \in Rects :
    /\ Pop("layout")
    /\ layoutInternal_(rect)
    /\ layoutFrame_' = 0
    /\ Did("layoutFrame", NoEvent, FALSE)
    /\ UNCHANGED <<supported, unbounded, phase, handlers, activationState_,
                   rafQueue, classes, timers, unboundedOpacityFadeTimer_,
                   bgAnimations, fgAnimations, cancelBgBounded_,
                   cancelFgBounded_, now, thrown, layoutCalls, deactivationInfo>>

\* A fade timer armed by animateUnboundedDeactivation_ fires: the one the kept
\* handle names, or an older one.
FadeTimer ==
  \E held \in BOOLEAN :
    /\ Idle
    /\ IF held THEN timers.held ELSE timers.others > 0
    /\ timers' = IF held THEN Release(timers)
                 ELSE [timers EXCEPT !.others = @ - 1]
    /\ classes' = classes \ {FG_UNBOUNDED_DEACTIVATION}
    /\ Did("fadeTimer", NoEvent, FALSE)
    /\ UNCHANGED <<supported, unbounded, phase, handlers, activationState_,
                   rafQueue, frameQueue, layoutFrame_, frame_, initialSize_,
                   maxRadius_, fgScale_, xfDuration_, cssVars,
                   unboundedOpacityFadeTimer_, bgAnimations, fgAnimations,
                   cancelBgBounded_, cancelFgBounded_, now, thrown, failed,
                   layoutCalls, deactivationInfo>>

\* The end event of the background transition reaches every registration of
\* animateWithClass that still listens for it: each removes its class and stops
\* listening.
TransitionEnd ==
  /\ Idle /\ Size(bgAnimations) > 0
  /\ bgAnimations' = None
  /\ classes' = classes \ {BG_BOUNDED_ACTIVE_FILL}
  /\ Did("transitionEnd", NoEvent, FALSE)
  /\ UNCHANGED <<supported, unbounded, phase, handlers, activationState_,
                 rafQueue, frameQueue, layoutFrame_, frame_, initialSize_,
                 maxRadius_, fgScale_, xfDuration_, cssVars, timers,
                 unboundedOpacityFadeTimer_, fgAnimations, cancelBgBounded_,
                 cancelFgBounded_, now, thrown, failed, layoutCalls,
                 deactivationInfo>>

\* The same for the end event of the foreground animation.
AnimationEnd ==
  /\ Idle /\ Size(fgAnimations) > 0
  /\ fgAnimations' = None
  /\ classes' = classes \ {FG_BOUNDED_ACTIVE_FILL}
  /\ Did("animationEnd", NoEvent, FALSE)
  /\ UNCHANGED <<supported, unbounded, phase, handlers, activationState_,
                 rafQueue, frameQueue, layoutFrame_, frame_, initialSize_,
                 maxRadius_, fgScale_, xfDuration_, cssVars, timers,
                 unboundedOpacityFadeTimer_, bgAnimations, cancelBgBounded_,
                 cancelFgBounded_, now, thrown, failed, layoutCalls,
                 deactivationInfo>>

\* The press cycle: every operation but the focus and blur listeners, which
\* neither read nor write this.activationState_.
Next ==
  \/ InitCall
  \/ DestroyCall
  \/ LayoutCall
  \/ ActivationEvent
  \/ DeactivationEvent
  \/ BeginFrame
  \/ ActivateFrame
  \/ DeactivateFrame
  \/ InitFrame
  \/ DestroyFrame
  \/ LayoutFrame
  \/ FadeTimer
  \/ TransitionEnd
  \/ AnimationEnd

Spec == Init /\ [][Next]_vars

\* The press cycle together with the focus and blur listeners, on a surface
\* that is laid out once by init() and not destroyed, up to the end of the
\* first fade timer or animation.
NextFocus ==
  \/ InitCall
  \/ ActivationEvent
  \/ DeactivationEvent
  \/ FocusEvent
  \/ BlurEvent
  \/ BeginFrame
  \/ ActivateFrame
  \/ DeactivateFrame
  \/ FocusFrame
  \/ BlurFrame
  \/ InitFrame

SpecFocus == Init /\ [][NextFocus]_vars

\* The geometry calculator on its own: layoutInternal_ on any of the frames
\* below, and getUnboundedDeactivationInfo_ for a press at any elapsed time.
Sides == {0, 30, 40}

MetricRects == Rects \cup {[width |-> w, height |-> h] : w, h \in Sides}

\* A layout pass measures the surface.
LayoutPass ==
  \E rect \in MetricRects :
    /\ layoutInternal_(rect)
    /\ Did("layoutInternal", NoEvent, FALSE)
    /\ UNCHANGED <<supported, unbounded, phase, handlers, activationState_,
                   rafQueue, frameQueue, layoutFrame_, classes, timers,
                   unboundedOpacityFadeTimer_, bgAnimations, fgAnimations,
                   cancelBgBounded_, cancelFgBounded_, now, thrown, failed,
                   layoutCalls, deactivationInfo>>

\* A press begins: activate_ stamps activationStartTime.
Press ==
  /\ ~activationState_.isActivated
  /\ now' = now
  /\ activate_("mousedown")
  /\ Did("activate", "mousedown", FALSE)
  /\ UNCHANGED <<supported, unbounded, phase, handlers, frameQueue,
                 layoutFrame_, frame_, initialSize_, maxRadius_, fgScale_,
                 xfDuration_, Surface, thrown, failed, layoutCalls,
                 deactivationInfo>>

\* The timing of the unbounded deactivation is estimated for the press, at a
\* time Date.now() may return.
Estimate ==
  \E t \in now..MaxElapsed :
    /\ activationState_.isActivated
    /\ now' = t
    /\ deactivationInfo' =
         getUnboundedDeactivationInfo_(activationState_.activationStartTime, t)
    /\ Did("estimate", NoEvent, FALSE)
    /\ UNCHANGED <<supported, unbounded, phase, handlers, activationState_,
                   rafQueue, frameQueue, layoutFrame_, frame_, initialSize_,
                   maxRadius_, fgScale_, xfDuration_, Surface, thrown, failed,
                   layoutCalls>>

NextMetrics ==
  \/ LayoutPass
  \/ Press
  \/ Estimate

SpecMetrics == Init /\ [][NextMetrics]_vars

\* ------------------------------------------------------------- claims
\* The pairing table as the specification states it.
PairedActivation(d) ==
  CASE d = "mouseup" -> "mousedown"
    [] d = "pointerup" -> "pointerdown"
    [] d = "touchend" -> "touchstart"
    [] d = "keyup" -> "keydown"
    [] d = "blur" -> "focus"

PointerActivation == {"mousedown", "touchstart", "pointerdown"}

Pending == rafQueue \o frameQueue

\* C1: an activation event received while isActivated is true changes no
\* field of ActivationState and requests no confirmation callback, whatever
\* the kind of the event.
C1_DuplicateActivationIsNoOp ==
  [][(last'.op = "activate" /\ activationState_.isActivated)
       => /\ activationState_' = activationState_
          /\ rafQueue' = rafQueue
          /\ frameQueue' = frameQueue]_vars

\* An activation event of another kind has just arrived in an activated cycle.
C1_Witness ==
  /\ last.op = "activate" /\ last.active
  /\ activationState_.isActivated
  /\ last.e # activationState_.activationEvent

\* C2: a deactivation event processed while activated resets ActivationState
\* to the default exactly when: the cycle began with a pointer kind and the
\* event is mouse-up, or the cycle began otherwise and the event pairs with
\* the activation event. When it does not reset, the state is kept. In a
\* touch-start cycle, touch-end requests the visuals without resetting and
\* mouse-up resets without requesting them.
C2_ResetRule ==
  [][(last'.op = "deactivate" /\ activationState_.isActivated)
       => LET e == last'.e
              a == activationState_.activationEvent
              reset == activationState_' = defaultActivationState_
              requested == Count(rafQueue', "deactivate") - Count(rafQueue, "deactivate")
          IN /\ reset <=> IF a \in PointerActivation
                          THEN e = "mouseup"
                          ELSE PairedActivation(e) = a
             /\ ~reset => activationState_' = activationState_
             /\ (a = "touchstart" /\ e = "touchend") => (~reset /\ requested = 1)
             /\ (a = "touchstart" /\ e = "mouseup") => (reset /\ requested = 0)]_vars

\* Touch-start, touch-end, mouse-up: the mouse-up has just reset the state and
\* the one deactivation callback pending is the touch-end's, for the object
\* that was just replaced.
C2_Witness ==
  /\ last.op = "deactivate" /\ last.e = "mouseup" /\ last.active
  /\ activationState_ = defaultActivationState_
  /\ Count(rafQueue, "deactivate") = 1
  /\ \E cb \in Range(rafQueue) :
       /\ cb.kind = "deactivate" /\ cb.e = "touchend" /\ cb.obj = 1
       /\ cb.state.activationEvent = "touchstart"

\* C3: a deactivation event processed while activated requests the deferred
\* deactivation-visual step if and only if the activation kind the table pairs
\* with it is the kind of the stored activation event.
C3_VisualsIffPaired ==
  [][(last'.op = "deactivate" /\ activationState_.isActivated)
       => IF PairedActivation(last'.e) = activationState_.activationEvent
          THEN /\ Len(rafQueue') = Len(rafQueue) + 1
               /\ rafQueue'[Len(rafQueue')].kind = "deactivate"
               /\ rafQueue'[Len(rafQueue')].e = last'.e
          ELSE /\ Len(rafQueue') = Len(rafQueue)
               /\ Count(rafQueue', "deactivate") = Count(rafQueue, "deactivate")]_vars

\* A pointer-up has just requested the visuals of a pointer-down cycle, which
\* goes on (only a mouse-up ends it).
C3_Witness ==
  /\ last.op = "deactivate" /\ last.e = "pointerup" /\ last.active
  /\ rafQueue # <<>>
  /\ rafQueue[Len(rafQueue)].kind = "deactivate"
  /\ rafQueue[Len(rafQueue)].e = "pointerup"
  /\ rafQueue[Len(rafQueue)].state.activationEvent = "pointerdown"
  /\ activationState_.isActivated

\* C4: while isActivated is true activationEvent is not null, and while it is
\* false ActivationState is the default instance.
C4_StateInvariant ==
  /\ activationState_.isActivated => activationState_.activationEvent # NoEvent
  /\ ~activationState_.isActivated => activationState_ = defaultActivationState_

\* A deactivation event has just ended a cycle whose press had been confirmed.
C4_Witness ==
  /\ last.op = "deactivate" /\ last.active
  /\ ~activationState_.isActivated
  /\ \E cb \in Range(rafQueue) : cb.kind = "deactivate" /\ cb.state.wasElementMadeActive

\* C5: right after the activation-visual step has run, no animation registered
\* before it is still running and no fade timer armed before it is still armed.
C5_ActivationCancelsAll ==
  (last.op = "activateFrame" /\ last.made)
    => (Size(bgAnimations) = 0 /\ Size(fgAnimations) = 0 /\ Size(timers) = 0)

\* C6: at most one fade timer is armed at any time.
C6_OneFadeTimer == Size(timers) <= 1

\* C7: when the confirmation step of a key-down cycle finds the surface not
\* pressed, it replaces ActivationState by the default and adds no style class,
\* and no callback of that cycle adds a style class.
C7_UnconfirmedKeyLeavesNothing ==
  [][/\ (last'.op = "activateFrame" /\ last'.e = "keydown" /\ ~last'.made)
          => (activationState_' = defaultActivationState_ /\ classes' = classes)
     /\ (frameQueue # <<>> /\ Cb.kind \in CycleKinds /\ Cb.obj \in failed)
          => classes' \subseteq classes]_vars

\* The confirmation of a key-down cycle has just failed while the deactivation
\* callback of the same cycle is still to run.
C7_Witness ==
  /\ last.op = "activateFrame" /\ last.e = "keydown" /\ ~last.made
  /\ activationState_ = defaultActivationState_
  /\ frameQueue # <<>> /\ Cb.kind = "deactivate" /\ Cb.obj \in failed

\* C8: a deactivation event received while isActivated is false changes
\* nothing, requests no callback and raises no failure.
C8_StrayDeactivationIsNoOp ==
  [][(last'.op = "deactivate" /\ ~activationState_.isActivated)
       => /\ activationState_' = activationState_
          /\ rafQueue' = rafQueue
          /\ frameQueue' = frameQueue
          /\ ~thrown']_vars

\* A deactivation event has just arrived with no cycle under way.
C8_Witness ==
  /\ last.op = "deactivate" /\ ~last.active
  /\ ~activationState_.isActivated /\ ~thrown

\* C9: in an unsupported environment init() and destroy() register and
\* unregister no handler, request no frame callback, arm no timer and change
\* no style class or style variable.
C9_UnsupportedIsNoOp ==
  [][(~supported /\ last'.op \in {"init", "destroy"})
       => UNCHANGED <<handlers, rafQueue, frameQueue, layoutFrame_, timers,
                      unboundedOpacityFadeTimer_, classes, cssVars>>]_vars

\* init() and then destroy() have been called in an unsupported environment.
C9_Witness ==
  /\ ~supported /\ last.op = "destroy" /\ phase = "destroyed"
  /\ handlers = {}

\* C10: at most one layout request is pending at any time; after one or more
\* calls of layout() since the last frame began exactly one is pending, so the
\* next frame runs exactly one layout pass for them; and layoutFrame_ is the
\* handle of the pending request, or 0 when there is none.
C10_LayoutCoalesced ==
  /\ Count(Pending, "layout") <= 1
  /\ layoutCalls >= 1 => Count(rafQueue, "layout") = 1
  /\ layoutFrame_ # 0 <=>
       \E cb \in Range(Pending) : cb.kind = "layout" /\ cb.id = layoutFrame_

\* layout() has been called twice or more since the last frame began, behind
\* another pending callback.
C10_Witness ==
  /\ layoutCalls = 2
  /\ Count(rafQueue, "layout") = 1
  /\ Len(rafQueue) >= 2

\* C13: in each bounded animation slot (background fill, foreground fill) at
\* most one registered animation is running at any time.
C13_OneAnimationPerSlot ==
  Size(bgAnimations) <= 1 /\ Size(fgAnimations) <= 1

\* C11: a layout pass on a frame of width 0 and height 0 yields initialSize,
\* maxRadius, fgScale and xfDuration all 0.
C11_DegenerateFrameZeroMetrics ==
  (last.op = "layoutInternal" /\ frame_ = [width |-> 0, height |-> 0])
    => /\ initialSize_ = Zero
       /\ maxRadius_ = Zero
       /\ fgScale_ = Zero
       /\ xfDuration_ = Zero

\* C12: opacityDuration is non-decreasing in the elapsed time, is never below
\* MIN_OPACITY_DURATION_MS and is the same for every elapsed time from
\* ACTIVE_OPACITY_DURATION_MS on; approxCurScale is 0 while the elapsed time
\* does not exceed FG_TRANSFORM_DELAY_MS and never exceeds fgScale. Stated of
\* the estimate just made, for each elapsed time and each measured surface,
\* against the estimates for one millisecond more and for the saturation time.
C12_EstimatorShape ==
  last.op = "estimate" =>
    LET ms == now - activationState_.activationStartTime
        info == deactivationInfo
        next == getUnboundedDeactivationInfo_(0, ms + 1)
        saturated == getUnboundedDeactivationInfo_(0, ACTIVE_OPACITY_DURATION_MS)
    IN /\ ~IsNaN(info.opacityDuration) /\ ~IsNaN(info.approxCurScale)
       /\ ~Less(next.opacityDuration, info.opacityDuration)
       /\ ~Less(info.opacityDuration, Whole(MIN_OPACITY_DURATION_MS))
       /\ ms >= ACTIVE_OPACITY_DURATION_MS
            => info.opacityDuration = saturated.opacityDuration
       /\ ms <= FG_TRANSFORM_DELAY_MS => info.approxCurScale = Zero
       /\ ~Greater(info.approxCurScale, fgScale_)

\* An estimate has just been made, on a measured surface, for a press long
\* enough to saturate the opacity and to have begun the transform.
C12_Witness ==
  /\ last.op = "estimate"
  /\ now - activationState_.activationStartTime > ACTIVE_OPACITY_DURATION_MS
  /\ frame_.width > 0 /\ frame_.height > 0
  /\ Greater(deactivationInfo.approxCurScale, Zero)
  /\ Less(deactivationInfo.approxCurScale, fgScale_)
  /\ Greater(deactivationInfo.opacityDuration, Whole(MIN_OPACITY_DURATION_MS))

\* The snapshots the pending deactivation callbacks hold, oldest first.
Snapshots(q) ==
  LET d == SelectSeq(q, LAMBDA cb : cb.kind = "deactivate")
  IN [i \in DOMAIN d |-> d[i].state]

\* The deactivation visuals have been started by this step.
VisualsStarted ==
  Size(timers') + Size(bgAnimations') > Size(timers) + Size(bgAnimations)

\* C14: the snapshot a deactivation callback holds is ActivationState as it was
\* when the deactivation event was processed; no other step (a reset, a later
\* activation, a confirmation step) changes a pending snapshot; and the
\* deactivation-visual step acts on the snapshot's wasActivatedByPointer,
\* wasElementMadeActive and activationStartTime.
C14_SnapshotAtEvent ==
  [][LET before == Snapshots(frameQueue \o rafQueue)
         after == Snapshots(frameQueue' \o rafQueue')
     IN IF last'.op = "deactivate" /\ activationState_.isActivated
             /\ PairedActivation(last'.e) = activationState_.activationEvent
        THEN after = Append(before, activationState_)
        ELSE IF last'.op = "deactivateFrame"
        THEN /\ before = <<Cb.state>> \o after
             /\ VisualsStarted
                  <=> (Cb.state.wasActivatedByPointer \/ Cb.state.wasElementMadeActive)
             /\ (VisualsStarted /\ unbounded)
                  => deactivationInfo' =
                       getUnboundedDeactivationInfo_(Cb.state.activationStartTime, now')
        ELSE after = before]_vars

\* The deactivation visuals have just been started from the snapshot of a
\* pointer cycle although ActivationState had been reset before the step ran.
C14_Witness ==
  /\ last.op = "deactivateFrame" /\ ~last.active
  /\ activationState_ = defaultActivationState_
  /\ BG_ACTIVE \notin classes
  /\ Size(timers) + Size(bgAnimations) > 0

\* C15: when the deactivation-visual step of a cycle runs, the confirmation
\* step of that cycle is not pending any more: it has run before, also when
\* the deactivation event arrived before the next frame.
C15_ConfirmationBeforeDeactivation ==
  [][last'.op = "deactivateFrame"
       => \A cb \in Range(frameQueue \o rafQueue) :
            ~(cb.kind = "activate" /\ cb.obj = Cb.obj)]_vars

\* The confirmation step of the current cycle has just run and made the element
\* active, and the next callback of the same frame is the deactivation-visual
\* step of the same cycle: its deactivation event arrived before the frame.
C15_Witness ==
  /\ last.op = "activateFrame" /\ last.made
  /\ activationState_.wasElementMadeActive
  /\ frameQueue # <<>> /\ Cb.kind = "deactivate" /\ Cb.obj = 0
  /\ ~Cb.state.wasElementMadeActive

\* C16: a focus or blur event leaves ActivationState and the surface as they
\* are and requests exactly one callback, which is not a deactivation step;
\* that callback adds (focus) or removes (blur) the active-background marker
\* and changes nothing else, whether a press cycle is under way or not.
C16_FocusBlurIndependent ==
  [][/\ last'.op \in {"focus", "blur"}
          => /\ activationState_' = activationState_
             /\ UNCHANGED Surface
             /\ Len(rafQueue') = Len(rafQueue) + 1
             /\ SubSeq(rafQueue', 1, Len(rafQueue)) = rafQueue
             /\ rafQueue'[Len(rafQueue')].kind = last'.op
     /\ last'.op \in {"focusFrame", "blurFrame"}
          => /\ activationState_' = activationState_
             /\ rafQueue' = rafQueue
             /\ classes' = IF last'.op = "focusFrame"
                           THEN classes \cup {BG_ACTIVE}
                           ELSE classes \ {BG_ACTIVE}
             /\ UNCHANGED <<cssVars, timers, unboundedOpacityFadeTimer_,
                            bgAnimations, fgAnimations, cancelBgBounded_,
                            cancelFgBounded_>>]_vars

\* A blur event has just arrived in the middle of a press cycle, which goes on.
C16_Witness ==
  /\ last.op = "blur" /\ last.active
  /\ activationState_.isActivated
  /\ rafQueue # <<>> /\ rafQueue[Len(rafQueue)].kind = "blur"

\* C17: a confirmation step that finds the surface not pressed, run after its
\* own cycle has ended and another cycle has begun, leaves the ActivationState
\* of the cycle under way as it is.
C17_StaleConfirmationKeepsNewCycle ==
  [][(/\ last'.op = "activateFrame" /\ last'.e = "keydown" /\ ~last'.made
      /\ Cb.obj # 0
      /\ activationState_.isActivated)
       => activationState_' = activationState_]_vars

\* C18: whenever ActivationState is at rest and no frame callback is pending
\* (and no focus event has been received), the active-background marker and
\* the unbounded-activation marker are absent from the surface.
C18_RestHasNoActivationMarkers ==
  (~activationState_.isActivated /\ rafQueue = <<>> /\ frameQueue = <<>>)
    => (BG_ACTIVE \notin classes /\ FG_UNBOUNDED_ACTIVATION \notin classes)

\* C19: after init() and destroy() in a supported environment, once every
\* frame callback, timer and animation has run, the surface carries no style
\* class, and no style variable other than those a layout pass sets.
C19_TeardownLeavesNothing ==
  (/\ supported /\ phase = "destroyed"
   /\ rafQueue = <<>> /\ frameQueue = <<>>
   /\ Size(timers) = 0 /\ Size(bgAnimations) = 0 /\ Size(fgAnimations) = 0)
    => /\ classes = {}
       /\ cssVars \subseteq (LayoutVars \cup UnboundedLayoutVars)

\* C20: the unbounded-activation marker and the unbounded-deactivation marker
\* are never both on the surface at the end of a turn.
C20_UnboundedMarkersExclusive ==
  ~(FG_UNBOUNDED_ACTIVATION \in classes /\ FG_UNBOUNDED_DEACTIVATION \in classes)

\* The activation visuals have just been started again while the fade of an
\* earlier deactivation was still under way: its timer is still armed, its
\* marker has been taken off.
C20_Witness ==
  /\ unbounded
  /\ last.op = "activateFrame" /\ last.made
  /\ FG_UNBOUNDED_ACTIVATION \in classes
  /\ FG_UNBOUNDED_DEACTIVATION \notin classes
  /\ timers.others > 0

====
